---- MODULE Spec2Model ----
(***************************************************************************)
(* A model of ModelRegistry (python/llamamlops/core/registry.py): the      *)
(* storage root (version directories, artifact entries, metadata.yaml      *)
(* files), the registry_index.json file, and the registry's operations     *)
(* taken one file-system call at a time by one or more processes.          *)
(***************************************************************************)
EXTENDS Integers, Sequences, FiniteSets, TLC

\* ------------------------------------------------------------------ bounds
MaxNames == 2
MaxVersions == 2
MaxTime == 1
NumProcs == 2
MaxOps == 2
MaxStored == 2
MaxSuffix == 1
TicksPerSecond == 1

Names == 1..MaxNames
\* Version strings; the integer order stands for the lexicographic order of
\* the strings.
Versions == 1..MaxVersions
Keys == Names \X Versions
Times == 0..MaxTime
Procs == 1..NumProcs

\* ------------------------------------------------------------------ values
NoVersion == 0
NoTime == 0 - 1
NoPath == <<>>
NoSize == 0 - 1

\* The entries a version directory can hold besides metadata.yaml: a copied
\* file (kept under the source file's name) or the "model" subdirectory.
FileSources == {"a.bin"}
\* The name of the metadata file of a version directory, and a source file
\* that has this name.
MetaFileName == "metadata.yaml"
MetaNamedSources == {MetaFileName}
Files == FileSources \cup MetaNamedSources
DirSources == {"srcdir"}
MissingSources == {"missing"}
Sources == FileSources \cup DirSources \cup MissingSources

\* os.path.getsize of a source file; the sum of the sizes of the files of a
\* copied source directory.
PayloadSize(src) == IF src \in Files THEN 1 ELSE 2

\* The name the payload gets in the version directory: model_path.name for
\* a file, "model" for a directory.
TargetOf(src) == IF src \in Files THEN src ELSE "model"

\* A path relative to the storage root: <<name, version, entry>>.
BogusPath == <<1, 1, "nowhere">>

\* The fields of the dataclass that the model keeps, and the other attributes
\* an instance answers hasattr for: its methods.
SchemaFields ==
    {"name", "version", "description", "created_at", "updated_at", "path",
     "size_bytes", "status", "custom"}
MethodNames == {"to_dict", "from_dict"}

HasAttr(key) == key \in SchemaFields \cup MethodNames

\* A ModelMetadata object: its fields and, in attrs, the names of the
\* non-field attributes that setattr has put on the instance.
ModelMetadata(name, version, description, created) ==
    [name |-> name, version |-> version, description |-> description,
     created_at |-> created, updated_at |-> NoTime, path |-> NoPath,
     size_bytes |-> NoSize, status |-> "registered", custom |-> {},
     attrs |-> {}]

NoRecord == ModelMetadata(0, 0, "", NoTime)

\* A metadata.yaml file: absent, holding a record ("ok"), left empty by a
\* write that failed after the file was opened for writing, or holding the
\* bytes of a payload copied under this name ("payload").
NoMetaFile == [state |-> "absent", rec |-> NoRecord]

\* The caller's metadata / metadata_updates mapping.
NoUpdates == <<>>
SetStatus == "status" :> "deployed"
\* A status outside the three the comment on the field lists.
SetStatusOther == "status" :> "retired"
SetPath == "path" :> BogusPath
\* A path that names the metadata file of a version directory.
SetPathMeta == "path" :> <<1, 1, MetaFileName>>
SetNote == "note" :> "x"
\* A mapping that names the identity fields of the record.
OtherName == MaxNames
OtherVersion == MaxVersions
SetIdentity == ("name" :> OtherName) @@ ("version" :> OtherVersion)
\* A size, and a path with a size, that are not those of any payload.
BogusSize == 7
SetSize == "size_bytes" :> BogusSize
SetPathSize == ("path" :> BogusPath) @@ ("size_bytes" :> BogusSize)
SetToDict == "to_dict" :> "x"
\* A created_at that is no timestamp string: None.
SetCreatedNone == "created_at" :> NoTime

\* The merge loop: a key the record answers hasattr for is set with setattr,
\* any other key goes to custom (kept here as the set of its keys).
MergeMetadata(md, upd) ==
    [f \in DOMAIN md |->
        IF f = "custom"
        THEN IF "custom" \in DOMAIN upd
             THEN upd["custom"]
             ELSE md.custom \cup {k \in DOMAIN upd : ~HasAttr(k)}
        ELSE IF f = "attrs"
        THEN md.attrs \cup {k \in DOMAIN upd : HasAttr(k) /\ k \notin SchemaFields}
        ELSE IF f \in DOMAIN upd THEN upd[f] ELSE md[f]]

StampSkipped(md, t) == md

\* metadata.updated_at = datetime.now().isoformat()
Stamp(md, t) == [md EXCEPT !.updated_at = t]

\* _generate_version: the clock reading cut to whole seconds
\* (strftime %Y%m%d%H%M%S), then one of the random suffixes. The integer
\* stands for the string: a later second gives a greater string, and within
\* a second the suffix decides.
Suffixes == 1..MaxSuffix

Second(t) == t \div TicksPerSecond

GenerateVersionNoTime(t, r) == r

GenerateVersion(t, r) == Second(t) * MaxSuffix + r

\* ------------------------------------------------------------------ index
EmptyIndex == <<>>

IndexEntryDropStatus(md) ==
    [created_at |-> md.created_at, description |-> md.description,
     path |-> md.path, status |-> "registered"]

\* The entry _update_index stores for a version.
IndexEntry(md) ==
    [created_at |-> md.created_at, description |-> md.description,
     path |-> md.path, status |-> md.status]

PosOf(vs, version) ==
    LET hits == {i \in 1..Len(vs) : vs[i].version = version}
    IN IF hits = {} THEN 0 ELSE CHOOSE i \in hits : TRUE

HasKey(idx, name, version) ==
    name \in DOMAIN idx /\ PosOf(idx[name], version) # 0

SetEntryAppend(vs, version, entry) ==
    Append(vs, [version |-> version, entry |-> entry])

\* index[name][version] = entry on insertion-ordered dicts: a new version goes
\* last, an existing one keeps its place.
SetEntry(vs, version, entry) ==
    LET i == PosOf(vs, version)
        e == [version |-> version, entry |-> entry]
    IN IF i = 0 THEN Append(vs, e) ELSE [vs EXCEPT ![i] = e]

Upsert(idx, name, version, md) ==
    LET vs == IF name \in DOMAIN idx THEN idx[name] ELSE <<>>
        new == SetEntry(vs, version, IndexEntry(md))
    IN [n \in DOMAIN idx \cup {name} |-> IF n = name THEN new ELSE idx[n]]

RemoveName(idx, name) ==
    [n \in DOMAIN idx \ {name} |-> idx[n]]

RemoveVersionAndName(idx, name, version) == RemoveName(idx, name)

RemoveVersionKeepName(idx, name, version) ==
    [idx EXCEPT ![name] = SelectSeq(idx[name], LAMBDA e : e.version # version)]

RemoveVersion(idx, name, version) ==
    LET left == SelectSeq(idx[name], LAMBDA e : e.version # version)
    IN IF left = <<>>
       THEN RemoveName(idx, name)
       ELSE [idx EXCEPT ![name] = left]

VersionsOfFirst(idx, name) ==
    [i \in 1..(IF Len(idx[name]) > 0 THEN 1 ELSE 0) |-> idx[name][i].version]

VersionsOf(idx, name) ==
    [i \in 1..Len(idx[name]) |-> idx[name][i].version]

\* list.sort(key=created_at, reverse=True) is stable: entries of equal
\* created_at keep the order they have in the dict.
InsertDesc(sorted, e) ==
    LET after == {i \in 1..Len(sorted) :
                    sorted[i].entry.created_at >= e.entry.created_at}
        k == IF after = {} THEN 0 ELSE CHOOSE i \in after : \A j \in after : j <= i
    IN SubSeq(sorted, 1, k) \o <<e>> \o SubSeq(sorted, k + 1, Len(sorted))

RECURSIVE SortDesc(_, _)
SortDesc(vs, acc) ==
    IF vs = <<>> THEN acc ELSE SortDesc(Tail(vs), InsertDesc(acc, Head(vs)))

\* The sort compares the created_at of the entries once there are two of
\* them, and a None among them makes the comparison raise TypeError.
SortRaises(idx, name) ==
    /\ name \in DOMAIN idx
    /\ Len(idx[name]) > 1
    /\ \E i \in 1..Len(idx[name]) : idx[name][i].entry.created_at = NoTime

\* list_versions on an index that holds name.
ListVersions(idx, name) ==
    LET sorted == SortDesc(idx[name], <<>>)
    IN [i \in 1..Len(sorted) |-> sorted[i].version]

GetLatestVersionLast(idx, name) ==
    IF name \notin DOMAIN idx THEN NoVersion
    ELSE IF ListVersions(idx, name) = <<>> THEN NoVersion
    ELSE ListVersions(idx, name)[Len(ListVersions(idx, name))]

GetLatestVersionGuess(idx, name) ==
    IF name \notin DOMAIN idx THEN CHOOSE v \in Versions : TRUE
    ELSE IF ListVersions(idx, name) = <<>> THEN NoVersion
    ELSE ListVersions(idx, name)[1]

\* get_latest_version: the first of list_versions, None (NoVersion) when the
\* name is unknown or has no version.
GetLatestVersion(idx, name) ==
    IF name \notin DOMAIN idx THEN NoVersion
    ELSE IF ListVersions(idx, name) = <<>> THEN NoVersion
    ELSE ListVersions(idx, name)[1]

\* ------------------------------------------------------------------ state
VARIABLES
    dirs,       \* the (name, version) keys whose version directory exists
    entries,    \* per key: the directory's entries other than metadata.yaml
    meta,       \* per key: the metadata.yaml file
    indexFile,  \* registry_index.json: present or not, torn while a writer
                \* has it open, and the index it holds (empty when it is
                \* torn or not there)
    now,        \* the wall clock
    pc,         \* per process: its position in the running operation, 0 = idle
    op,         \* per process: the call it runs or ran last
    md,         \* per process: its local ModelMetadata object
    loc,        \* per process: the index it read
    todo,       \* per process: the versions delete_model still has to remove
    ret,        \* per process: how its last call ended
    start,      \* history: what the call of each process found when it began
    registered, \* history: the keys registered with success and not deleted since
    nops,       \* history: the number of calls begun
    hist,       \* history, kept when hist.on: the call before the current one,
                \* its result, and the storage root as the current call found it
    out         \* per process: the value its last call returned

vars == <<dirs, entries, meta, indexFile, now, pc, op, md, loc, todo, ret,
          start, registered, nops, hist, out>>

NoOp == [kind |-> "none", name |-> 0, version |-> NoVersion, src |-> "",
         desc |-> "", upd |-> NoUpdates]
NoStart == [index |-> [present |-> TRUE, torn |-> FALSE, idx |-> EmptyIndex], dir |-> FALSE,
            meta |-> "absent"]
NoStore == [dirs |-> {}, entries |-> <<>>, meta |-> <<>>,
            indexFile |-> [present |-> TRUE, torn |-> FALSE, idx |-> EmptyIndex]]
NoHist == [on |-> FALSE, op |-> NoOp, ret |-> "none", store |-> NoStore]
NoOut == [version |-> NoVersion, path |-> NoPath, names |-> {}]

\* The storage root: directories, their entries, metadata files, index file.
Store == [dirs |-> dirs, entries |-> entries, meta |-> meta,
          indexFile |-> indexFile]

\* __init__ on a fresh storage root: the directory and an empty index file.
Init ==
    /\ dirs = {}
    /\ entries = [k \in Keys |-> {}]
    /\ meta = [k \in Keys |-> NoMetaFile]
    /\ indexFile = [present |-> TRUE, torn |-> FALSE, idx |-> EmptyIndex]
    /\ now = 0
    /\ pc = [p \in Procs |-> 0]
    /\ op = [p \in Procs |-> NoOp]
    /\ md = [p \in Procs |-> NoRecord]
    /\ loc = [p \in Procs |-> EmptyIndex]
    /\ todo = [p \in Procs |-> <<>>]
    /\ ret = [p \in Procs |-> "none"]
    /\ start = [p \in Procs |-> NoStart]
    /\ registered = {}
    /\ nops = 0
    /\ hist = NoHist
    /\ out = [p \in Procs |-> NoOut]

\* A storage root that earlier calls have filled: register_model of an
\* existing file at time 0 for the first j keys, name by name.
KeyAt(i) ==
    <<((i - 1) \div MaxVersions) + 1, ((i - 1) % MaxVersions) + 1>>

StoredKeys(j) == {KeyAt(i) : i \in 1..j}

StoredSource == CHOOSE src \in FileSources : TRUE

StoredRecord(k) ==
    [ModelMetadata(k[1], k[2], "", 0) EXCEPT
        !.path = <<k[1], k[2], StoredSource>>,
        !.size_bytes = PayloadSize(StoredSource)]

RECURSIVE StoredIndex(_)
StoredIndex(j) ==
    IF j = 0 THEN EmptyIndex
    ELSE Upsert(StoredIndex(j - 1), KeyAt(j)[1], KeyAt(j)[2], StoredRecord(KeyAt(j)))

Stored(j, track) ==
    /\ dirs = StoredKeys(j)
    /\ entries = [k \in Keys |-> IF k \in StoredKeys(j) THEN {StoredSource} ELSE {}]
    /\ meta = [k \in Keys |->
                 IF k \in StoredKeys(j)
                 THEN [state |-> "ok", rec |-> StoredRecord(k)]
                 ELSE NoMetaFile]
    /\ indexFile = [present |-> TRUE, torn |-> FALSE, idx |-> StoredIndex(j)]
    /\ now = 0
    /\ pc = [p \in Procs |-> 0]
    /\ op = [p \in Procs |-> NoOp]
    /\ md = [p \in Procs |-> NoRecord]
    /\ loc = [p \in Procs |-> EmptyIndex]
    /\ todo = [p \in Procs |-> <<>>]
    /\ ret = [p \in Procs |-> "none"]
    /\ start = [p \in Procs |-> NoStart]
    /\ registered = StoredKeys(j)
    /\ nops = 0
    /\ hist = [NoHist EXCEPT !.on = track]
    /\ out = [p \in Procs |-> NoOut]

StoredCounts == {j \in 0..MaxStored : j <= MaxNames * MaxVersions}

\* A filled storage root, the calls on it recorded in hist.
InitStored == \E j \in StoredCounts : Stored(j, TRUE)

\* A filled storage root shared by several processes.
InitShared == \E j \in StoredCounts : Stored(j, FALSE)

\* self.project_name of the registry a call is made on; a call record
\* without the field is one on a registry without project name.
NoProject == 0
Projects == 1..NumProcs

ProjectOf(o) == IF "project" \in DOMAIN o THEN o.project ELSE NoProject

\* _get_model_dir: storage_dir / name / version, or storage_dir /
\* project_name / name / version. The first component stands for the path
\* [project_name/]name.
ModelDir(project, name, version) ==
    <<project * (MaxNames + 1) + name, version>>

DirOf(o) == ModelDir(ProjectOf(o), o.name, o.version)

\* A storage root on which a registry opened with project name `project`
\* has registered the first j keys, and the version directories that
\* registries with project names can create on it.
ScopedDirs == {ModelDir(pr, k[1], k[2]) : pr \in Projects, k \in Keys}

ScopedRecord(project, k) ==
    LET d == ModelDir(project, k[1], k[2])
    IN [ModelMetadata(k[1], k[2], "", 0) EXCEPT
           !.path = <<d[1], d[2], StoredSource>>,
           !.size_bytes = PayloadSize(StoredSource)]

RECURSIVE ScopedIndex(_, _)
ScopedIndex(project, j) ==
    IF j = 0 THEN EmptyIndex
    ELSE Upsert(ScopedIndex(project, j - 1), KeyAt(j)[1], KeyAt(j)[2],
                ScopedRecord(project, KeyAt(j)))

StoredIn(project, j) ==
    LET made == {ModelDir(project, k[1], k[2]) : k \in StoredKeys(j)}
    IN /\ dirs = made
       /\ entries = [d \in ScopedDirs |-> IF d \in made THEN {StoredSource} ELSE {}]
       /\ meta = [d \in ScopedDirs |->
                    IF d \in made
                    THEN [state |-> "ok",
                          rec |-> ScopedRecord(project,
                                      CHOOSE k \in StoredKeys(j) :
                                          ModelDir(project, k[1], k[2]) = d)]
                    ELSE NoMetaFile]
       /\ indexFile = [present |-> TRUE, torn |-> FALSE,
                       idx |-> ScopedIndex(project, j)]
       /\ now = 0
       /\ pc = [p \in Procs |-> 0]
       /\ op = [p \in Procs |-> NoOp]
       /\ md = [p \in Procs |-> NoRecord]
       /\ loc = [p \in Procs |-> EmptyIndex]
       /\ todo = [p \in Procs |-> <<>>]
       /\ ret = [p \in Procs |-> "none"]
       /\ start = [p \in Procs |-> NoStart]
       /\ registered = StoredKeys(j)
       /\ nops = 0
       /\ hist = [NoHist EXCEPT !.on = TRUE]
       /\ out = [p \in Procs |-> NoOut]

\* The project name of the registry that makes the calls, and the one of
\* the registry that filled the storage root and looks at it.
ActingProject == 1
OtherProject == 2

InitProjects == \E j \in StoredCounts : StoredIn(OtherProject, j)

\* ------------------------------------------------------------------ steps
\* The file-system calls of each operation, in the order the code makes them.
RegisterStepsIndexFirst ==
    <<"mkdir", "copy", "idx_read", "idx_trunc", "idx_dump", "meta_write">>

RegisterStepsCopyLast ==
    <<"mkdir", "meta_write", "idx_read", "idx_trunc", "idx_dump", "copy">>

RegisterSteps ==
    <<"mkdir", "copy", "meta_write", "idx_read", "idx_trunc", "idx_dump">>

UpdateSteps ==
    <<"meta_read", "meta_write", "idx_read", "idx_trunc", "idx_dump">>

DeleteStepsNoWrite ==
    <<"idx_read", "rmtree">>

DeleteSteps ==
    <<"idx_read", "rmtree", "idx_trunc", "idx_dump">>

StepsOf(kind) ==
    CASE kind = "register" -> RegisterSteps
      [] kind = "register_generated" -> RegisterSteps
      [] kind = "update" -> UpdateSteps
      [] kind = "delete" -> DeleteSteps
      [] kind = "list_versions" -> <<"idx_read">>
      [] kind = "get_model_metadata" -> <<"meta_read">>
      [] kind = "get_model_metadata_latest" -> <<"resolve", "meta_read">>
      [] kind = "get_model" -> <<"meta_read", "locate">>
      [] kind = "get_model_latest" -> <<"resolve", "meta_read", "locate">>
      [] kind = "get_latest_version" -> <<"resolve">>
      [] kind = "list_models" -> <<"keys_read">>
      [] kind = "construct" -> <<"init_check", "idx_trunc", "idx_dump">>
      [] OTHER -> <<>>

KeyOf(o) == <<o.name, o.version>>

AtStep(p, s) ==
    /\ pc[p] > 0
    /\ StepsOf(op[p].kind)[pc[p]] = s

\* The keys a delete_model call is to remove.
Targets(o) ==
    {k \in Keys : k[1] = o.name /\ (o.version = NoVersion \/ k[2] = o.version)}

\* The call of p goes on to its next file-system call, or returns.
Advance(p) ==
    IF pc[p] < Len(StepsOf(op[p].kind))
    THEN /\ pc' = [pc EXCEPT ![p] = pc[p] + 1]
         /\ ret' = ret
         /\ registered' = registered
    ELSE /\ pc' = [pc EXCEPT ![p] = 0]
         /\ ret' = [ret EXCEPT ![p] = "ok"]
         /\ registered' =
              IF op[p].kind \in {"register", "register_generated"}
              THEN registered \cup {KeyOf(op[p])}
              ELSE IF op[p].kind = "delete" THEN registered \ Targets(op[p])
              ELSE registered

\* The call of p ends here with result r (an exception, or an early return).
EndWith(p, r) ==
    /\ pc' = [pc EXCEPT ![p] = 0]
    /\ ret' = [ret EXCEPT ![p] = r]
    /\ registered' = registered

Returning(p) == pc'[p] = 0

\* The locals of a call are dropped when it ends.
Locals(p, m, l, t) ==
    /\ md' = [md EXCEPT ![p] = IF Returning(p) THEN NoRecord ELSE m]
    /\ loc' = [loc EXCEPT ![p] = IF Returning(p) THEN EmptyIndex ELSE l]
    /\ todo' = [todo EXCEPT ![p] = IF Returning(p) THEN <<>> ELSE t]

KeepLocals(p) == Locals(p, md[p], loc[p], todo[p])

Begin(p, o) ==
    /\ pc[p] = 0
    /\ nops < MaxOps
    /\ nops' = nops + 1
    /\ pc' = [pc EXCEPT ![p] = 1]
    /\ op' = [op EXCEPT ![p] = o]
    /\ ret' = [ret EXCEPT ![p] = "running"]
    /\ start' = [start EXCEPT ![p] =
                   [index |-> indexFile,
                    dir |-> DirOf(o) \in dirs,
                    meta |-> IF DirOf(o) \in DOMAIN meta THEN meta[DirOf(o)].state
                             ELSE "absent"]]
    /\ loc' = loc
    /\ todo' = todo
    /\ hist' = IF hist.on
               THEN [on |-> TRUE, op |-> op[p], ret |-> ret[p], store |-> Store]
               ELSE hist
    /\ out' = [out EXCEPT ![p] = NoOut]
    /\ UNCHANGED <<dirs, entries, meta, indexFile, now, registered>>

\* register_model up to its first file-system call: the record is built
\* (created_at = now, status = registered) and the caller's mapping merged.
BeginRegister(p, srcs, upds) ==
    \E name \in Names, version \in Versions, src \in srcs, upd \in upds :
        /\ Begin(p, [kind |-> "register", name |-> name, version |-> version,
                     src |-> src, desc |-> "", upd |-> upd])
        /\ md' = [md EXCEPT ![p] =
                    MergeMetadata(ModelMetadata(name, version, "", now), upd)]

\* register_model with the version omitted: _generate_version supplies it.
BeginRegisterGenerated(p, srcs, upds) ==
    \E name \in Names, src \in srcs, upd \in upds, r \in Suffixes :
        LET version == GenerateVersion(now, r)
        IN /\ version \in Versions
           /\ Begin(p, [kind |-> "register_generated", name |-> name,
                        version |-> version, src |-> src, desc |-> "",
                        upd |-> upd])
           /\ md' = [md EXCEPT ![p] =
                       MergeMetadata(ModelMetadata(name, version, "", now), upd)]

BeginUpdate(p, upds) ==
    \E name \in Names, version \in Versions, upd \in upds :
        /\ Begin(p, [kind |-> "update", name |-> name, version |-> version,
                     src |-> "", desc |-> "", upd |-> upd])
        /\ md' = md

\* delete_model(name, version), version NoVersion when omitted.
BeginDelete(p) ==
    \E name \in Names, version \in Versions \cup {NoVersion} :
        /\ Begin(p, [kind |-> "delete", name |-> name, version |-> version,
                     src |-> "", desc |-> "", upd |-> NoUpdates])
        /\ md' = md

\* register_model, update_model_metadata and delete_model on a registry
\* that was opened with a project name.
BeginRegisterIn(p, project, srcs, upds) ==
    \E name \in Names, version \in Versions, src \in srcs, upd \in upds :
        /\ Begin(p, [kind |-> "register", name |-> name, version |-> version,
                     src |-> src, desc |-> "", upd |-> upd,
                     project |-> project])
        /\ md' = [md EXCEPT ![p] =
                    MergeMetadata(ModelMetadata(name, version, "", now), upd)]

BeginUpdateIn(p, project, upds) ==
    \E name \in Names, version \in Versions, upd \in upds :
        /\ Begin(p, [kind |-> "update", name |-> name, version |-> version,
                     src |-> "", desc |-> "", upd |-> upd,
                     project |-> project])
        /\ md' = md

BeginDeleteIn(p, project) ==
    \E name \in Names, version \in Versions \cup {NoVersion} :
        /\ Begin(p, [kind |-> "delete", name |-> name, version |-> version,
                     src |-> "", desc |-> "", upd |-> NoUpdates,
                     project |-> project])
        /\ md' = md

BeginListVersions(p) ==
    \E name \in Names :
        /\ Begin(p, [kind |-> "list_versions", name |-> name, version |-> NoVersion,
                     src |-> "", desc |-> "", upd |-> NoUpdates])
        /\ md' = md

BeginGetModelMetadata(p) ==
    \E name \in Names, version \in Versions :
        /\ Begin(p, [kind |-> "get_model_metadata", name |-> name,
                     version |-> version, src |-> "", desc |-> "",
                     upd |-> NoUpdates])
        /\ md' = md

\* os.makedirs(model_dir, exist_ok=True)
Mkdir(p) ==
    /\ AtStep(p, "mkdir")
    /\ dirs' = dirs \cup {DirOf(op[p])}
    /\ Advance(p)
    /\ KeepLocals(p)
    /\ UNCHANGED <<entries, meta, indexFile, now, op, start, nops, hist, out>>

\* The copy of the payload: a file under its own name, a directory as
\* "model" (replacing an earlier one), anything else is an invalid source.
CopiedPathOnly(rec, k, src) ==
    [rec EXCEPT !.path = <<k[1], k[2], TargetOf(src)>>]

\* model_metadata.path and model_metadata.size_bytes as set after the copy.
Copied(rec, k, src) ==
    [rec EXCEPT !.path = <<k[1], k[2], TargetOf(src)>>,
                !.size_bytes = PayloadSize(src)]

Copy(p) ==
    LET k == DirOf(op[p])
        src == op[p].src
        target == TargetOf(src)
    IN /\ AtStep(p, "copy")
       /\ IF src \in MissingSources
          THEN /\ EndWith(p, "InvalidSource")
               /\ UNCHANGED <<dirs, entries>>
               /\ KeepLocals(p)
          ELSE IF src \in Files /\ k \notin dirs
          THEN /\ EndWith(p, "FileNotFound")
               /\ UNCHANGED <<dirs, entries>>
               /\ KeepLocals(p)
          ELSE /\ dirs' = dirs \cup {k}
               /\ entries' = [entries EXCEPT ![k] = @ \cup ({target} \ {MetaFileName})]
               /\ Advance(p)
               /\ Locals(p, Copied(md[p], k, src), loc[p], todo[p])
       /\ meta' = IF src \in MetaNamedSources /\ k \in dirs
                  THEN [meta EXCEPT ![k] = [state |-> "payload", rec |-> NoRecord]]
                  ELSE meta
       /\ UNCHANGED <<indexFile, now, op, start, nops, hist, out>>

\* get_model_metadata: not found without the file; update_model_metadata
\* goes on to merge the updates and to stamp updated_at, get_model to locate
\* the artifact of the record it read.
MetaFileFoundAlways(file) == TRUE

\* metadata_path.exists()
MetaFileFound(file) == file.state # "absent"

MetaRead(p) ==
    LET k == DirOf(op[p])
    IN /\ AtStep(p, "meta_read")
       /\ IF ~MetaFileFound(meta[k])
          THEN EndWith(p, "MetadataNotFound") /\ KeepLocals(p)
          ELSE IF meta[k].state \in {"empty", "payload"}
          THEN EndWith(p, "MetadataDecodeError") /\ KeepLocals(p)
          ELSE /\ Advance(p)
               /\ Locals(p, IF op[p].kind = "update"
                            THEN Stamp(MergeMetadata(meta[k].rec, op[p].upd), now)
                            ELSE meta[k].rec,
                         loc[p], todo[p])
       /\ UNCHANGED <<dirs, entries, meta, indexFile, now, op, start, nops, hist, out>>

\* open(metadata_path, 'w') and yaml.dump(model_metadata.to_dict(), f): the
\* file is opened, and so emptied, before to_dict is called; the call fails
\* when the merge has put a non-callable value over the method.
MetaWrite(p) ==
    LET k == DirOf(op[p])
    IN /\ AtStep(p, "meta_write")
       /\ IF k \notin dirs
          THEN EndWith(p, "FileNotFound") /\ meta' = meta
          ELSE IF "to_dict" \in md[p].attrs
          THEN /\ EndWith(p, "TypeError")
               /\ meta' = [meta EXCEPT ![k] = [state |-> "empty", rec |-> NoRecord]]
          ELSE /\ Advance(p)
               /\ meta' = [meta EXCEPT ![k] =
                             [state |-> "ok", rec |-> [md[p] EXCEPT !.attrs = {}]]]
       /\ KeepLocals(p)
       /\ UNCHANGED <<dirs, entries, indexFile, now, op, start, nops, hist, out>>

\* _read_index, and what each caller does with it before its next call.
IdxRead(p) ==
    LET o == op[p]
        idx == indexFile.idx
    IN /\ AtStep(p, "idx_read")
       /\ IF indexFile.torn
          THEN EndWith(p, "IndexDecodeError") /\ KeepLocals(p)
          ELSE IF o.kind = "list_versions"
          THEN /\ EndWith(p, IF o.name \notin DOMAIN idx THEN "ModelNotFound"
                              ELSE IF SortRaises(idx, o.name) THEN "TypeError"
                              ELSE "ok")
               /\ KeepLocals(p)
          ELSE IF o.kind = "delete" /\ o.name \notin DOMAIN idx
          THEN EndWith(p, "not_found") /\ KeepLocals(p)
          ELSE IF o.kind = "delete" /\ o.version # NoVersion
                  /\ ~HasKey(idx, o.name, o.version)
          THEN EndWith(p, "not_found") /\ KeepLocals(p)
          ELSE /\ Advance(p)
               /\ Locals(p, md[p], idx,
                         IF o.kind # "delete" THEN <<>>
                         ELSE IF o.version = NoVersion THEN VersionsOf(idx, o.name)
                         ELSE <<o.version>>)
       /\ UNCHANGED <<dirs, entries, meta, indexFile, now, op, start, nops, hist, out>>

\* _delete_model_version of the next version to remove.
Rmtree(p) ==
    LET k == ModelDir(ProjectOf(op[p]), op[p].name, Head(todo[p]))
    IN /\ AtStep(p, "rmtree")
       /\ todo[p] # <<>>
       /\ dirs' = dirs \ {k}
       /\ entries' = [entries EXCEPT ![k] = {}]
       /\ meta' = [meta EXCEPT ![k] = NoMetaFile]
       /\ IF Tail(todo[p]) = <<>>
          THEN Advance(p)
          ELSE UNCHANGED <<pc, ret, registered>>
       /\ Locals(p, md[p], loc[p], Tail(todo[p]))
       /\ UNCHANGED <<indexFile, now, op, start, nops, hist, out>>

\* _write_index, first half: open(index_file, 'w') truncates the file.
IdxTrunc(p) ==
    /\ AtStep(p, "idx_trunc")
    /\ indexFile' = [present |-> TRUE, torn |-> TRUE, idx |-> EmptyIndex]
    /\ Advance(p)
    /\ KeepLocals(p)
    /\ UNCHANGED <<dirs, entries, meta, now, op, start, nops, hist, out>>

\* The index a mutating call writes back: the one it read, changed.
NewIndex(p) ==
    LET o == op[p]
    IN IF o.kind = "construct" THEN EmptyIndex
       ELSE IF o.kind = "delete"
       THEN IF o.version = NoVersion
            THEN RemoveName(loc[p], o.name)
            ELSE RemoveVersion(loc[p], o.name, o.version)
       ELSE Upsert(loc[p], o.name, o.version, md[p])

\* _write_index, second half: json.dump and close.
IdxDump(p) ==
    /\ AtStep(p, "idx_dump")
    /\ indexFile' = [present |-> TRUE, torn |-> FALSE, idx |-> NewIndex(p)]
    /\ Advance(p)
    /\ KeepLocals(p)
    /\ UNCHANGED <<dirs, entries, meta, now, op, start, nops, hist, out>>

\* The clock moves on.
Tick ==
    /\ now + 1 \in Times
    /\ now' = now + 1
    /\ UNCHANGED <<dirs, entries, meta, indexFile, pc, op, md, loc, todo, ret,
                   start, registered, nops, hist, out>>

\* The process dies between two file-system calls.
Crash(p) ==
    /\ pc[p] > 0
    /\ EndWith(p, "crashed")
    /\ KeepLocals(p)
    /\ UNCHANGED <<dirs, entries, meta, indexFile, now, op, start, nops, hist, out>>

\* The metadata write fails with an I/O error: at open (the file is left as
\* it was) or during the dump (the file is left empty).
MetaWriteFail(p) ==
    LET k == DirOf(op[p])
    IN /\ AtStep(p, "meta_write")
       /\ k \in dirs
       /\ \/ meta' = meta
          \/ meta' = [meta EXCEPT ![k] = [state |-> "empty", rec |-> NoRecord]]
       /\ EndWith(p, "MetadataWriteError")
       /\ KeepLocals(p)
       /\ UNCHANGED <<dirs, entries, indexFile, now, op, start, nops, hist, out>>

BeginGetLatestVersion(p) ==
    \E name \in Names :
        /\ Begin(p, [kind |-> "get_latest_version", name |-> name,
                     version |-> NoVersion, src |-> "", desc |-> "",
                     upd |-> NoUpdates])
        /\ md' = md

\* get_model and get_model_metadata with the version omitted.
BeginGetLatest(p) ==
    \E name \in Names, kind \in {"get_model_latest", "get_model_metadata_latest"} :
        /\ Begin(p, [kind |-> kind, name |-> name, version |-> NoVersion,
                     src |-> "", desc |-> "", upd |-> NoUpdates])
        /\ md' = md

BeginGetModel(p) ==
    \E name \in Names, version \in Versions :
        /\ Begin(p, [kind |-> "get_model", name |-> name, version |-> version,
                     src |-> "", desc |-> "", upd |-> NoUpdates])
        /\ md' = md

\* get_latest_version as the code runs it: list_versions, whose ValueError
\* (the JSON decode error of an unreadable index is one) becomes None and
\* whose other exceptions pass through. The getters called without a version
\* go on with the version it returned.
Resolve(p) ==
    LET o == op[p]
        v == IF indexFile.torn THEN NoVersion
             ELSE GetLatestVersion(indexFile.idx, o.name)
    IN /\ AtStep(p, "resolve")
       /\ IF ~indexFile.torn /\ SortRaises(indexFile.idx, o.name)
          THEN /\ EndWith(p, "TypeError")
               /\ UNCHANGED <<out, op>>
          ELSE IF o.kind = "get_latest_version"
          THEN /\ Advance(p)
               /\ out' = [out EXCEPT ![p].version = v]
               /\ op' = op
          ELSE IF v = NoVersion
          THEN /\ EndWith(p, "ModelNotFound")
               /\ UNCHANGED <<out, op>>
          ELSE /\ Advance(p)
               /\ op' = [op EXCEPT ![p].version = v]
               /\ out' = out
       /\ KeepLocals(p)
       /\ UNCHANGED <<dirs, entries, meta, indexFile, now, start, nops, hist>>

PathExists(path) ==
    /\ path # NoPath
    /\ <<path[1], path[2]>> \in dirs
    /\ IF path[3] = MetaFileName
       THEN meta[<<path[1], path[2]>>].state # "absent"
       ELSE path[3] \in entries[<<path[1], path[2]>>]

\* The paths get_model can return for a record read from the directory of k:
\* the recorded path when it exists, else any entry of the directory other
\* than metadata.yaml (os.listdir has no fixed order).
GetModelResults(rec, k) ==
    IF PathExists(rec.path) THEN {rec.path}
    ELSE {<<k[1], k[2], e>> : e \in entries[k]}

\* get_model after it has read the record.
Locate(p) ==
    LET k == DirOf(op[p])
    IN /\ AtStep(p, "locate")
       /\ IF ~PathExists(md[p].path) /\ k \notin dirs
          THEN EndWith(p, "FileNotFound") /\ out' = out
          ELSE IF GetModelResults(md[p], k) = {}
          THEN EndWith(p, "ModelFileNotFound") /\ out' = out
          ELSE /\ Advance(p)
               /\ \E path \in GetModelResults(md[p], k) :
                     out' = [out EXCEPT ![p].path = path]
       /\ KeepLocals(p)
       /\ UNCHANGED <<dirs, entries, meta, indexFile, now, op, start, nops, hist>>

\* ModelRegistry(storage_dir) on the storage root.
BeginConstruct(p) ==
    /\ Begin(p, [kind |-> "construct", name |-> 0, version |-> NoVersion,
                 src |-> "", desc |-> "", upd |-> NoUpdates])
    /\ md' = md

NeedsIndexAlways(file) == TRUE

\* if not self.index_file.exists()
NeedsIndex(file) == ~file.present

\* __init__ writes the empty index when it finds no index file.
InitCheck(p) ==
    /\ AtStep(p, "init_check")
    /\ IF NeedsIndex(indexFile) THEN Advance(p) ELSE EndWith(p, "ok")
    /\ KeepLocals(p)
    /\ UNCHANGED <<dirs, entries, meta, indexFile, now, op, start, nops, hist, out>>

BeginListModels(p) ==
    /\ Begin(p, [kind |-> "list_models", name |-> 0, version |-> NoVersion,
                 src |-> "", desc |-> "", upd |-> NoUpdates])
    /\ md' = md

ListModelsWithDirs(idx) == {n \in DOMAIN idx : \E k \in dirs : k[1] = n}

\* list(index.keys())
ListModelsResult(idx) == DOMAIN idx

\* list_models: _read_index (the empty index when the file is not there) and
\* its keys.
ListModels(p) ==
    /\ AtStep(p, "keys_read")
    /\ IF indexFile.torn
       THEN EndWith(p, "IndexDecodeError") /\ out' = out
       ELSE /\ Advance(p)
            /\ out' = [out EXCEPT ![p].names = ListModelsResult(indexFile.idx)]
    /\ KeepLocals(p)
    /\ UNCHANGED <<dirs, entries, meta, indexFile, now, op, start, nops, hist>>

\* Between calls, an outside hand removes the index file from the storage
\* root.
IndexFileLost ==
    /\ \A p \in Procs : pc[p] = 0
    /\ indexFile.present
    /\ indexFile' = [present |-> FALSE, torn |-> FALSE, idx |-> EmptyIndex]
    /\ UNCHANGED <<dirs, entries, meta, now, pc, op, md, loc, todo, ret, start,
                   registered, nops, hist, out>>

\* Between calls, an outside hand empties a version directory of everything
\* but its metadata file.
ArtifactLost ==
    \E k \in dirs :
        /\ \A p \in Procs : pc[p] = 0
        /\ entries[k] # {}
        /\ entries' = [entries EXCEPT ![k] = {}]
        /\ UNCHANGED <<dirs, meta, indexFile, now, pc, op, md, loc, todo, ret,
                       start, registered, nops, hist, out>>

Reads(p) ==
    \/ BeginListVersions(p)
    \/ BeginGetModelMetadata(p)

Step(p) ==
    \/ Mkdir(p)
    \/ Copy(p)
    \/ MetaRead(p)
    \/ MetaWrite(p)
    \/ IdxRead(p)
    \/ Rmtree(p)
    \/ IdxTrunc(p)
    \/ IdxDump(p)

\* Any number of processes on the same storage root, their calls interleaved.
Next ==
    \/ Tick
    \/ \E p \in Procs :
        \/ BeginRegister(p, FileSources, {NoUpdates})
        \/ BeginUpdate(p, {SetStatus})
        \/ BeginDelete(p)
        \/ Reads(p)
        \/ Step(p)

Spec == Init /\ [][Next]_vars

\* One process, one call after the other, with every kind of input.
SeqProc == CHOOSE p \in Procs : \A q \in Procs : p <= q

NextSeq ==
    \/ Tick
    \/ BeginRegister(SeqProc, Sources, {NoUpdates, SetPath})
    \/ BeginUpdate(SeqProc, {SetStatus, SetPath})
    \/ BeginDelete(SeqProc)
    \/ Reads(SeqProc)
    \/ Step(SeqProc)

SpecSeq == Init /\ [][NextSeq]_vars

\* One process whose mutating calls can die or fail at any file-system call.
NextCrash ==
    \/ BeginRegister(SeqProc, FileSources \cup DirSources, {NoUpdates})
    \/ BeginUpdate(SeqProc, {SetStatus})
    \/ BeginDelete(SeqProc)
    \/ Step(SeqProc)
    \/ Crash(SeqProc)
    \/ MetaWriteFail(SeqProc)

SpecCrash == Init /\ [][NextCrash]_vars

\* One process on a filled storage root: registrations, deletions and
\* reads, one call after the other.
NextStored ==
    \/ BeginRegister(SeqProc, FileSources, {NoUpdates})
    \/ BeginDelete(SeqProc)
    \/ Reads(SeqProc)
    \/ BeginGetLatest(SeqProc)
    \/ Step(SeqProc)
    \/ Resolve(SeqProc)
    \/ Locate(SeqProc)

SpecStored == InitStored /\ [][NextStored]_vars

\* One process on a filled storage root whose clock moves: updates and
\* fetches of the versions registered at time 0.
NextClock ==
    \/ Tick
    \/ BeginUpdate(SeqProc, {SetStatus})
    \/ BeginGetModelMetadata(SeqProc)
    \/ MetaRead(SeqProc)
    \/ MetaWrite(SeqProc)
    \/ IdxRead(SeqProc)
    \/ IdxTrunc(SeqProc)
    \/ IdxDump(SeqProc)

SpecClock == InitStored /\ [][NextClock]_vars

\* One process on a filled storage root: registrations, which can die at
\* any file-system call, and the reads that go through the index.
NextReads ==
    \/ BeginRegister(SeqProc, FileSources, {NoUpdates, SetCreatedNone})
    \/ BeginListVersions(SeqProc)
    \/ BeginGetLatestVersion(SeqProc)
    \/ BeginGetLatest(SeqProc)
    \/ Mkdir(SeqProc)
    \/ Copy(SeqProc)
    \/ MetaWrite(SeqProc)
    \/ IdxRead(SeqProc)
    \/ IdxTrunc(SeqProc)
    \/ IdxDump(SeqProc)
    \/ Resolve(SeqProc)
    \/ MetaRead(SeqProc)
    \/ Locate(SeqProc)
    \/ Crash(SeqProc)

SpecReads == InitStored /\ [][NextReads]_vars

\* One process on a filled storage root whose callers pass metadata
\* mappings of every kind of key.
MergeInputs == {NoUpdates, SetStatus, SetStatusOther, SetNote, SetToDict}

NextMerge ==
    \/ BeginRegister(SeqProc, FileSources, MergeInputs)
    \/ BeginUpdate(SeqProc, MergeInputs)
    \/ BeginDelete(SeqProc)
    \/ BeginGetModelMetadata(SeqProc)
    \/ Step(SeqProc)

SpecMerge == InitStored /\ [][NextMerge]_vars

\* One process that registers with the version omitted while the clock
\* moves.
NextGenerated ==
    \/ Tick
    \/ BeginRegisterGenerated(SeqProc, FileSources, {NoUpdates})
    \/ Mkdir(SeqProc)
    \/ Copy(SeqProc)
    \/ MetaWrite(SeqProc)
    \/ IdxRead(SeqProc)
    \/ IdxTrunc(SeqProc)
    \/ IdxDump(SeqProc)

SpecGenerated == InitStored /\ [][NextGenerated]_vars

\* One process on a filled storage root that constructs registries, lists
\* the models and deletes, can die at any file-system call, and can find the
\* index file gone.
NextRoot ==
    \/ BeginConstruct(SeqProc)
    \/ BeginListModels(SeqProc)
    \/ BeginDelete(SeqProc)
    \/ InitCheck(SeqProc)
    \/ ListModels(SeqProc)
    \/ IdxRead(SeqProc)
    \/ Rmtree(SeqProc)
    \/ IdxTrunc(SeqProc)
    \/ IdxDump(SeqProc)
    \/ Crash(SeqProc)
    \/ IndexFileLost

SpecRoot == InitStored /\ [][NextRoot]_vars

\* One process on a filled storage root that sets the recorded path of
\* versions and asks for their paths, while version directories can lose
\* their payload.
PathInputs == {SetPath, SetPathMeta}

NextLocate ==
    \/ BeginUpdate(SeqProc, PathInputs)
    \/ BeginGetModel(SeqProc)
    \/ MetaRead(SeqProc)
    \/ MetaWrite(SeqProc)
    \/ IdxRead(SeqProc)
    \/ IdxTrunc(SeqProc)
    \/ IdxDump(SeqProc)
    \/ Locate(SeqProc)
    \/ ArtifactLost

SpecLocate == InitStored /\ [][NextLocate]_vars

\* One process on a filled storage root: registrations of files and of
\* directories whose metadata mapping names a size, or a path and a size.
PayloadInputs == {NoUpdates, SetSize, SetPathSize}

NextPayload ==
    \/ BeginRegister(SeqProc, FileSources \cup DirSources, PayloadInputs)
    \/ Mkdir(SeqProc)
    \/ Copy(SeqProc)
    \/ MetaWrite(SeqProc)
    \/ IdxRead(SeqProc)
    \/ IdxTrunc(SeqProc)
    \/ IdxDump(SeqProc)

SpecPayload == InitStored /\ [][NextPayload]_vars

\* One registry with a project name that registers, updates and deletes on
\* a storage root filled by a registry with another project name.
NextProjects ==
    \/ BeginRegisterIn(SeqProc, ActingProject, FileSources, {NoUpdates})
    \/ BeginUpdateIn(SeqProc, ActingProject, {SetStatus})
    \/ BeginDeleteIn(SeqProc, ActingProject)
    \/ Mkdir(SeqProc)
    \/ Copy(SeqProc)
    \/ MetaRead(SeqProc)
    \/ MetaWrite(SeqProc)
    \/ IdxRead(SeqProc)
    \/ Rmtree(SeqProc)
    \/ IdxTrunc(SeqProc)
    \/ IdxDump(SeqProc)

SpecProjects == InitProjects /\ [][NextProjects]_vars

\* One process on a filled storage root whose metadata mappings name the
\* identity fields, and fetches of the stored records.
IdentityInputs == {NoUpdates, SetIdentity}

NextIdentity ==
    \/ BeginRegister(SeqProc, FileSources, IdentityInputs)
    \/ BeginUpdate(SeqProc, IdentityInputs)
    \/ BeginGetModelMetadata(SeqProc)
    \/ Mkdir(SeqProc)
    \/ Copy(SeqProc)
    \/ MetaRead(SeqProc)
    \/ MetaWrite(SeqProc)
    \/ IdxRead(SeqProc)
    \/ IdxTrunc(SeqProc)
    \/ IdxDump(SeqProc)

SpecIdentity == InitStored /\ [][NextIdentity]_vars

\* One process on a filled storage root that registers files, one of them
\* named like the metadata file, and asks for the paths of the versions.
NextNames ==
    \/ BeginRegister(SeqProc, Files, {NoUpdates})
    \/ BeginGetModel(SeqProc)
    \/ Mkdir(SeqProc)
    \/ Copy(SeqProc)
    \/ MetaRead(SeqProc)
    \/ MetaWrite(SeqProc)
    \/ IdxRead(SeqProc)
    \/ IdxTrunc(SeqProc)
    \/ IdxDump(SeqProc)
    \/ Locate(SeqProc)

SpecNames == InitStored /\ [][NextNames]_vars

\* Two processes on one filled storage root, their calls interleaved: one
\* registers and deletes versions, the other deletes.
Writers == {p \in Procs : p <= 2}

NextIndex ==
    \/ BeginRegister(SeqProc, FileSources, {NoUpdates})
    \/ \E p \in Writers :
        \/ BeginDelete(p)
        \/ Mkdir(p)
        \/ Copy(p)
        \/ MetaWrite(p)
        \/ IdxRead(p)
        \/ Rmtree(p)
        \/ IdxTrunc(p)
        \/ IdxDump(p)

SpecIndex == InitShared /\ [][NextIndex]_vars

\* Two processes on a storage root whose index file can be missing: each
\* constructs a registry on the root or registers a version, their calls
\* interleaved.
NextOpen ==
    \/ IndexFileLost
    \/ \E p \in Writers :
        \/ BeginConstruct(p)
        \/ BeginRegister(p, FileSources, {NoUpdates})
        \/ InitCheck(p)
        \/ Mkdir(p)
        \/ Copy(p)
        \/ MetaWrite(p)
        \/ IdxRead(p)
        \/ IdxTrunc(p)
        \/ IdxDump(p)

SpecOpen == InitShared /\ [][NextOpen]_vars

\* Several processes on one filled storage root that update the status of
\* its versions, their calls interleaved.
StatusInputs == {SetStatus, SetStatusOther}

NextUpdates ==
    \E p \in Procs :
        \/ BeginUpdate(p, StatusInputs)
        \/ MetaRead(p)
        \/ MetaWrite(p)
        \/ IdxRead(p)
        \/ IdxTrunc(p)
        \/ IdxDump(p)

SpecUpdates == InitShared /\ [][NextUpdates]_vars

\* Several processes on one filled storage root, their calls interleaved.
NextShared ==
    \E p \in Procs :
        \/ BeginRegister(p, FileSources, {NoUpdates})
        \/ BeginUpdate(p, {SetStatus})
        \/ BeginDelete(p)
        \/ BeginGetModelMetadata(p)
        \/ BeginGetModel(p)
        \/ Step(p)
        \/ Locate(p)

SpecShared == InitShared /\ [][NextShared]_vars

\* ------------------------------------------------------------------ claims
Quiescent == \A p \in Procs : pc[p] = 0

InIndex(k) == ~indexFile.torn /\ HasKey(indexFile.idx, k[1], k[2])

EntryOf(idx, k) == idx[k[1]][PosOf(idx[k[1]], k[2])].entry

IndexKeys(idx) ==
    {k \in Keys : HasKey(idx, k[1], k[2])}

MetaExists(k) == meta[k].state # "absent"

\* The path names an existing entry of the version directory of k.
ResolvesIn(path, k) ==
    /\ path # NoPath
    /\ <<path[1], path[2]>> = k
    /\ k \in dirs
    /\ path[3] \in entries[k]

Elems(seq) == {seq[i] : i \in 1..Len(seq)}

FullyPresentAtStart(p) ==
    /\ HasKey(start[p].index.idx, op[p].name, op[p].version)
    /\ start[p].dir
    /\ start[p].meta = "ok"

AbsentAtStart(p) ==
    /\ ~HasKey(start[p].index.idx, op[p].name, op[p].version)
    /\ ~start[p].dir
    /\ start[p].meta = "absent"

\* C1: between calls of a single registry, a metadata record exists iff the
\* version directory exists iff the index holds an entry, for every
\* (name, version).
C1_ThreeWayIff ==
    Quiescent =>
        \A k \in Keys :
            /\ MetaExists(k) <=> k \in dirs
            /\ k \in dirs <=> InIndex(k)

\* C2: when every process has run one register_model, for pairwise distinct
\* (name, version) and an existing source, all calls succeeded and the index
\* holds exactly their entries.
C2_NoLostUpdate ==
    ( /\ nops = NumProcs
      /\ \A p \in Procs : op[p].kind = "register" /\ pc[p] = 0
      /\ \A p, q \in Procs : p # q => KeyOf(op[p]) # KeyOf(op[q]) )
    => /\ \A p \in Procs : ret[p] = "ok"
       /\ ~indexFile.torn
       /\ IndexKeys(indexFile.idx) = {KeyOf(op[p]) : p \in Procs}

\* C3: at every step of delete_model(name, version) on a registered version,
\* a crash at that step included, the index holds no entry for the version
\* once its metadata or its directory is gone.
C3_DeleteIndexFirst ==
    \A p \in Procs :
        ( /\ op[p].kind = "delete"
          /\ op[p].version # NoVersion
          /\ ret[p] \in {"running", "crashed"}
          /\ FullyPresentAtStart(p) )
        => ( InIndex(KeyOf(op[p]))
               => KeyOf(op[p]) \in dirs /\ MetaExists(KeyOf(op[p])) )

\* C4: at every step of register_model of a version that was absent, a crash
\* or failure at that step included, an index entry for the version implies
\* that its artifact and its metadata record are in place.
C4_RegisterIndexLast ==
    \A p \in Procs :
        (op[p].kind = "register" /\ AbsentAtStart(p))
        => ( InIndex(KeyOf(op[p]))
               => /\ KeyOf(op[p]) \in dirs
                  /\ entries[KeyOf(op[p])] # {}
                  /\ meta[KeyOf(op[p])].state = "ok" )

C4_Witness ==
    \E p \in Procs :
        /\ op[p].kind = "register"
        /\ AbsentAtStart(p)
        /\ ret[p] = "ok"
        /\ InIndex(KeyOf(op[p]))

\* C5: no read of the index file ever finds it empty or partly written.
C5_AtomicSave ==
    \A p \in Procs : ret[p] # "IndexDecodeError"

\* C6: between calls, every version registered with success and not deleted
\* since has a metadata record whose path names an existing entry of its
\* version directory, and list_versions of its name holds it.
C6_RegisteredResolvable ==
    Quiescent =>
        \A k \in registered :
            /\ meta[k].state = "ok"
            /\ ResolvesIn(meta[k].rec.path, k)
            /\ ~indexFile.torn
            /\ k[1] \in DOMAIN indexFile.idx
            /\ k[2] \in Elems(ListVersions(indexFile.idx, k[1]))

\* C7, as stated: after a register_model whose metadata write failed, the
\* index is as it was and holds no entry for (name, version), so that
\* list_versions does not report the version.
C7_FailedWriteNoEntry ==
    \A p \in Procs :
        (op[p].kind = "register" /\ ret[p] = "MetadataWriteError")
        => /\ indexFile = start[p].index
           /\ ~InIndex(KeyOf(op[p]))

\* C7, amended: after a register_model whose metadata write failed, the index
\* is as it was when the call began, and list_versions reports the version
\* only if it did before the call.
C7_FailedWriteIndexUnchanged ==
    \A p \in Procs :
        (op[p].kind = "register" /\ ret[p] = "MetadataWriteError")
        => /\ indexFile = start[p].index
           /\ ( ( /\ ~indexFile.torn
                  /\ op[p].name \in DOMAIN indexFile.idx
                  /\ op[p].version \in Elems(ListVersions(indexFile.idx, op[p].name)) )
                => HasKey(start[p].index.idx, op[p].name, op[p].version) )

C7_Witness ==
    \E p \in Procs :
        /\ op[p].kind = "register"
        /\ ret[p] = "MetadataWriteError"
        /\ entries[KeyOf(op[p])] # {}
        /\ ~InIndex(KeyOf(op[p]))

\* C8: between calls, every index entry carries the created_at, description,
\* path and status of the metadata record stored for the same version.
C8_IndexMatchesMetadata ==
    Quiescent =>
        \A k \in Keys :
            InIndex(k) =>
                /\ meta[k].state = "ok"
                /\ EntryOf(indexFile.idx, k).created_at = meta[k].rec.created_at
                /\ EntryOf(indexFile.idx, k).description = meta[k].rec.description
                /\ EntryOf(indexFile.idx, k).path = meta[k].rec.path
                /\ EntryOf(indexFile.idx, k).status = meta[k].rec.status

C8_Witness ==
    /\ Quiescent
    /\ \E k \in Keys :
        /\ InIndex(k)
        /\ meta[k].state = "ok"
        /\ meta[k].rec.updated_at # NoTime
        /\ meta[k].rec.status = "deployed"

CreatedAt(idx, name, version) == EntryOf(idx, <<name, version>>).created_at

\* C9: list_versions holds every version of the name once, by created_at
\* descending and, for equal created_at, by version descending.
C9_ListVersionsTotalOrder ==
    \A name \in DOMAIN indexFile.idx :
        LET idx == indexFile.idx
            lv == ListVersions(idx, name)
        IN /\ Len(lv) = Len(idx[name])
           /\ Elems(lv) = Elems(VersionsOf(idx, name))
           /\ \A i, j \in 1..Len(lv) :
                i < j =>
                    \/ CreatedAt(idx, name, lv[i]) > CreatedAt(idx, name, lv[j])
                    \/ /\ CreatedAt(idx, name, lv[i]) = CreatedAt(idx, name, lv[j])
                       /\ lv[i] > lv[j]

\* C10: after register_model of v1 and then of v2 for one name, v2's
\* created_at not before v1's, list_versions starts with, and
\* get_latest_version is, v2, or the greater of the two version strings when
\* the created_at are equal.
C10_LatestAfterTwoRegistrations ==
    \A name \in DOMAIN indexFile.idx :
        LET idx == indexFile.idx
            e1 == idx[name][1]
            e2 == idx[name][2]
            expected == IF e2.entry.created_at > e1.entry.created_at
                        THEN e2.version
                        ELSE IF e1.version > e2.version THEN e1.version
                        ELSE e2.version
        IN ( /\ Quiescent
             /\ nops = 2
             /\ Len(idx[name]) = 2
             /\ e2.entry.created_at >= e1.entry.created_at )
           => /\ ListVersions(idx, name)[1] = expected
              /\ GetLatestVersion(idx, name) = expected

\* C11: delete_model(name, version) of a version the index holds reports
\* success and leaves no index entry and no directory for it; the same call
\* made again right after reports not-found and leaves the storage root as
\* the first call left it.
C11_DeleteTwice ==
    LET p == SeqProc
        o == op[p]
        k == KeyOf(o)
    IN (o.kind = "delete" /\ o.version # NoVersion /\ pc[p] = 0)
       => /\ HasKey(start[p].index.idx, o.name, o.version)
               => /\ ret[p] = "ok"
                  /\ ~InIndex(k)
                  /\ k \notin dirs
          /\ (hist.op = o /\ hist.ret = "ok")
               => /\ ret[p] = "not_found"
                  /\ Store = hist.store
                  /\ ~InIndex(k)
                  /\ k \notin dirs

C11_Witness ==
    /\ op[SeqProc].kind = "delete"
    /\ op[SeqProc].version # NoVersion
    /\ hist.op = op[SeqProc]
    /\ hist.ret = "ok"
    /\ ret[SeqProc] = "not_found"

\* C12: delete_model(name) without a version, for a name the index holds,
\* reports success, removes directory, metadata and index entry of every
\* version the index held and the name itself, so that list_models does not
\* hold the name and a fetch of any version of it right after finds nothing.
C12_DeleteAllVersions ==
    LET p == SeqProc
        o == op[p]
    IN /\ (o.kind = "delete" /\ o.version = NoVersion /\ pc[p] = 0
            /\ o.name \in DOMAIN start[p].index.idx)
          => /\ ret[p] = "ok"
             /\ ~indexFile.torn
             /\ o.name \notin DOMAIN indexFile.idx
             /\ \A v \in Versions :
                  HasKey(start[p].index.idx, o.name, v)
                  => /\ <<o.name, v>> \notin dirs
                     /\ entries[<<o.name, v>>] = {}
                     /\ meta[<<o.name, v>>].state = "absent"
       /\ (o.kind = "get_model_metadata" /\ pc[p] = 0
            /\ hist.op.kind = "delete" /\ hist.op.version = NoVersion
            /\ hist.op.name = o.name /\ hist.ret = "ok")
          => ret[p] = "MetadataNotFound"

C12_Witness ==
    /\ op[SeqProc].kind = "delete"
    /\ op[SeqProc].version = NoVersion
    /\ ret[SeqProc] = "ok"
    /\ Len(start[SeqProc].index.idx[op[SeqProc].name]) > 1
    /\ DOMAIN indexFile.idx # {}

\* update_model_metadata(name, version, {status: deployed}) returned and
\* get_model_metadata(name, version) was called right after and returned.
UpdatedThenFetched ==
    /\ op[SeqProc].kind = "get_model_metadata"
    /\ pc[SeqProc] = 0
    /\ hist.op.kind = "update"
    /\ hist.op.upd = SetStatus
    /\ KeyOf(hist.op) = KeyOf(op[SeqProc])
    /\ hist.ret = "ok"

C14_DeleteKeepsOtherEntries ==
    \A p, q \in Procs :
        ( /\ Quiescent
          /\ op[p].kind = "delete" /\ op[p].version # NoVersion
          /\ ret[p] = "ok"
          /\ op[q].kind \in {"register", "update"}
          /\ ret[q] = "ok"
          /\ KeyOf(op[q]) # KeyOf(op[p]) )
        => /\ InIndex(KeyOf(op[q]))
           /\ EntryOf(indexFile.idx, KeyOf(op[q])).status =
                IF op[q].kind = "update" THEN "deployed" ELSE "registered"

\* C15: whenever get_model_metadata(name, version) or get_model(name,
\* version), called with an explicit version, returns a record or a path,
\* the index holds an entry for (name, version) at that moment.
C15_ReadsConsultIndex ==
    [][\A p \in Procs :
          ( /\ op[p].kind \in {"get_model_metadata", "get_model"}
            /\ pc[p] > 0
            /\ pc'[p] = 0
            /\ ret'[p] = "ok" )
          => InIndex(KeyOf(op[p]))]_vars

\* C16: a register_model whose source is neither a file nor a directory
\* changes no metadata file and not the index at any of its steps, and ends
\* with the invalid-source error.
C16_InvalidSourceWritesNothing ==
    [][\A p \in Procs :
          ( /\ op[p].kind = "register"
            /\ op[p].src \in MissingSources
            /\ pc[p] > 0 )
          => /\ meta' = meta
             /\ indexFile' = indexFile
             /\ pc'[p] = 0 => ret'[p] = "InvalidSource"]_vars

C16_Witness ==
    \E p \in Procs :
        /\ op[p].kind = "register"
        /\ op[p].src \in MissingSources
        /\ ret[p] = "InvalidSource"
        /\ ~InIndex(KeyOf(op[p]))
        /\ ~MetaExists(KeyOf(op[p]))

\* C17: get_latest_version(name) returns without raising, whatever the index
\* file holds: the first element of list_versions(name) when the index
\* lists a version for name, None otherwise; it leaves the storage root as
\* it found it.
C17_LatestNeverRaises ==
    LET p == SeqProc
        o == op[p]
        idx == indexFile.idx
    IN (o.kind = "get_latest_version" /\ pc[p] = 0 /\ ret[p] # "crashed")
       => /\ ret[p] = "ok"
          /\ Store = hist.store
          /\ out[p].version =
               IF indexFile.torn \/ o.name \notin DOMAIN idx THEN NoVersion
               ELSE IF Len(idx[o.name]) = 0 THEN NoVersion
               ELSE ListVersions(idx, o.name)[1]

\* C18: for a name the index does not hold, list_versions(name),
\* get_model(name) and get_model_metadata(name), the version omitted, end
\* with the model-not-found error and leave the storage root as it was.
C18_UnknownNameNotFound ==
    LET p == SeqProc
        o == op[p]
    IN ( /\ o.kind \in {"list_versions", "get_model_latest",
                        "get_model_metadata_latest"}
         /\ pc[p] = 0
         /\ o.name \notin DOMAIN start[p].index.idx )
       => /\ ret[p] = "ModelNotFound"
          /\ Store = hist.store

C18_Witness ==
    /\ op[SeqProc].kind = "get_model_latest"
    /\ ret[SeqProc] = "ModelNotFound"
    /\ ~indexFile.torn
    /\ DOMAIN indexFile.idx # {}
    /\ op[SeqProc].name \notin DOMAIN indexFile.idx

\* C19: a register_model of a version the index already holds that returns
\* normally leaves exactly one index entry for (name, version); the stored
\* record is the one of this registration (fresh status, no updated_at, the
\* path of this call's copy), the entry agrees with it, and get_model
\* resolves to that path.
C19_ReRegisterOverwrites ==
    \A p \in Procs :
        LET o == op[p]
            k == KeyOf(o)
            idx == indexFile.idx
            copied == <<o.name, o.version,
                        IF o.src \in FileSources THEN o.src ELSE "model">>
        IN ( /\ o.kind = "register"
             /\ pc[p] = 0
             /\ ret[p] = "ok"
             /\ HasKey(start[p].index.idx, o.name, o.version) )
           => /\ ~indexFile.torn
              /\ o.name \in DOMAIN idx
              /\ Cardinality({i \in 1..Len(idx[o.name]) :
                                idx[o.name][i].version = o.version}) = 1
              /\ meta[k].state = "ok"
              /\ meta[k].rec.name = o.name
              /\ meta[k].rec.version = o.version
              /\ meta[k].rec.path = copied
              /\ meta[k].rec.status = "registered"
              /\ meta[k].rec.updated_at = NoTime
              /\ EntryOf(idx, k).path = copied
              /\ EntryOf(idx, k).created_at = meta[k].rec.created_at
              /\ GetModelResults(meta[k].rec, k) = {copied}

C19_Witness ==
    \E p \in Procs :
        /\ op[p].kind = "register"
        /\ ret[p] = "ok"
        /\ HasKey(start[p].index.idx, op[p].name, op[p].version)
        /\ meta[KeyOf(op[p])].rec.path[3] = "model"
        /\ entries[KeyOf(op[p])] = {"model"} \cup FileSources

\* The merge loop of the call of p has just run.
JustMerged(p) ==
    \/ op[p].kind = "register" /\ pc[p] = 1
    \/ op[p].kind = "update" /\ pc[p] = 2

\* C20: right after the merge loop of register_model or
\* update_model_metadata, every key of the caller's mapping that is a schema
\* field has set that field, every other key is in custom, and no attribute
\* of the record other than its fields has been set.
C20_MergeUniform ==
    \A p \in Procs :
        JustMerged(p)
        => /\ md[p].attrs = {}
           /\ \A key \in DOMAIN op[p].upd :
                IF key \in SchemaFields
                THEN md[p][key] = op[p].upd[key]
                ELSE key \in md[p].custom

\* C21: a register_model or update_model_metadata that returns normally for
\* a version the index already held leaves the created_at of its metadata
\* record and of its index entry at the value the index held before the call.
C21_CreatedAtImmutable ==
    \A p \in Procs :
        LET o == op[p]
            k == KeyOf(o)
        IN ( /\ o.kind \in {"register", "update"}
             /\ pc[p] = 0
             /\ ret[p] = "ok"
             /\ HasKey(start[p].index.idx, o.name, o.version) )
           => /\ InIndex(k)
              /\ EntryOf(indexFile.idx, k).created_at
                   = EntryOf(start[p].index.idx, k).created_at
              /\ meta[k].rec.created_at
                   = EntryOf(start[p].index.idx, k).created_at

Statuses == {"registered", "deployed", "archived"}

\* C22: the status of every stored metadata record and of every index entry
\* is one of registered, deployed, archived.
C22_StatusInSet ==
    /\ \A k \in Keys : meta[k].state = "ok" => meta[k].rec.status \in Statuses
    /\ \A name \in DOMAIN indexFile.idx :
         \A i \in 1..Len(indexFile.idx[name]) :
            indexFile.idx[name][i].entry.status \in Statuses

\* The lifecycle state of a version, read off its metadata file.
Life(k) ==
    IF meta[k].state = "absent" THEN "absent"
    ELSE IF meta[k].state = "empty" THEN "unreadable"
    ELSE meta[k].rec.status

\* C23: at every step, a version that was absent and now has a record is in
\* status registered, a version that was deployed or archived is not in
\* status registered, and a version becomes absent only in a delete_model.
C23_Lifecycle ==
    [][\A k \in Keys :
          /\ (Life(k) = "absent" /\ Life(k)' \notin {"absent", "unreadable"})
               => Life(k)' = "registered"
          /\ Life(k) \in {"deployed", "archived"} => Life(k)' # "registered"
          /\ (Life(k) # "absent" /\ Life(k)' = "absent")
               => \E p \in Procs : op[p].kind = "delete" /\ pc[p] > 0]_vars

\* Two register_model calls with the version omitted, for one name, have
\* returned normally one after the other.
TwoGenerated ==
    /\ op[SeqProc].kind = "register_generated"
    /\ pc[SeqProc] = 0
    /\ ret[SeqProc] = "ok"
    /\ hist.op.kind = "register_generated"
    /\ hist.ret = "ok"
    /\ hist.op.name = op[SeqProc].name

FirstGenerated == KeyOf(hist.op)
SecondGenerated == KeyOf(op[SeqProc])

\* The record of k is stored, its directory holds an artifact and the index
\* lists it.
Exists(k) ==
    /\ k \in dirs
    /\ entries[k] # {}
    /\ meta[k].state = "ok"
    /\ InIndex(k)

\* The clock readings at which the two versions were generated.
FirstGeneratedAt == hist.store.meta[FirstGenerated].rec.created_at
SecondGeneratedAt == meta[SecondGenerated].rec.created_at

Returns(p) == pc[p] > 0 /\ pc'[p] = 0 /\ ret'[p] # "crashed"

\* C25: a registry constructed on a root whose index file exists leaves the
\* storage root, the index file included, as it was; constructed on a root
\* without index file it leaves an empty index; and list_models on a root
\* without index file returns no name, without error and without creating
\* the file.
C25_IndexCreatedOnce ==
    [][LET p == SeqProc
           o == op[p]
           before == hist.store
       IN /\ (Returns(p) /\ o.kind = "construct")
             => /\ ret'[p] = "ok"
                /\ before.indexFile.present => Store' = before
                /\ ~before.indexFile.present
                     => /\ indexFile' = [present |-> TRUE, torn |-> FALSE,
                                         idx |-> EmptyIndex]
                        /\ dirs' = before.dirs
                        /\ entries' = before.entries
                        /\ meta' = before.meta
          /\ (Returns(p) /\ o.kind = "list_models"
               /\ ~before.indexFile.present)
             => /\ ret'[p] = "ok"
                /\ out'[p].names = {}
                /\ Store' = before]_vars

C25_Witness ==
    /\ op[SeqProc].kind = "construct"
    /\ ret[SeqProc] = "ok"
    /\ hist.store.indexFile.present
    /\ DOMAIN indexFile.idx # {}
\* C26: get_model of a version whose metadata record exists returns the
\* recorded path when that exists on disk, else some entry of the version
\* directory other than the metadata file, else fails with the
\* artifact-not-found error; a returned path exists and is never the
\* metadata file.
C26_GetModelPath ==
    [][LET p == SeqProc
           o == op[p]
           k == KeyOf(o)
           rec == meta[k].rec
           others == {<<k[1], k[2], e>> : e \in entries[k]}
       IN (Returns(p) /\ o.kind = "get_model" /\ meta[k].state = "ok")
          => /\ PathExists(rec.path)
                  => ret'[p] = "ok" /\ out'[p].path = rec.path
             /\ (~PathExists(rec.path) /\ others # {})
                  => ret'[p] = "ok" /\ out'[p].path \in others
             /\ (~PathExists(rec.path) /\ others = {})
                  => ret'[p] = "ModelFileNotFound"
             /\ ret'[p] = "ok"
                  => /\ PathExists(out'[p].path)
                     /\ out'[p].path[3] # MetaFileName]_vars

\* C27: update_model_metadata and get_model_metadata of a (name, version)
\* that has no metadata file fail with the metadata-not-found error, and the
\* failed call leaves the metadata files, the directories and the index file
\* as they were: no metadata file and no index entry comes into being.
C27_MissingMetadataNotFound ==
    LET p == SeqProc
        o == op[p]
        k == KeyOf(o)
        before == hist.store
    IN (/\ o.kind \in {"update", "get_model_metadata"}
        /\ pc[p] = 0
        /\ before.meta[k].state = "absent")
       => /\ ret[p] = "MetadataNotFound"
          /\ meta[k].state = "absent"
          /\ meta = before.meta
          /\ dirs = before.dirs
          /\ indexFile = before.indexFile

C27_Witness ==
    /\ op[SeqProc].kind = "update"
    /\ ret[SeqProc] = "MetadataNotFound"
    /\ hist.store.meta[KeyOf(op[SeqProc])].state = "absent"
    /\ DOMAIN indexFile.idx # {}

\* C28: list_models returns exactly the names that are keys of the index,
\* whether or not the directories and metadata files of those names exist,
\* and changes nothing on the storage root; it returns whenever the index
\* file is readable or missing.
C28_ListModelsIndexKeys ==
    [][LET p == SeqProc
       IN (Returns(p) /\ op[p].kind = "list_models")
          => /\ Store' = hist.store
             /\ ~indexFile.torn => ret'[p] = "ok"
             /\ ret'[p] = "ok"
                  => out'[p].names = {n \in Names : n \in DOMAIN indexFile'.idx}]_vars

\* list_models has returned a name none of whose version directories exists.
C28_Witness ==
    /\ op[SeqProc].kind = "list_models"
    /\ pc[SeqProc] = 0
    /\ ret[SeqProc] = "ok"
    /\ \E n \in out[SeqProc].names : \A k \in dirs : k[1] # n

\* C29: a register_model that returns normally returns and stores a record
\* whose path names the copied payload inside the version directory, where
\* it exists, and whose size_bytes is the size of the payload and not
\* negative, whatever path or size_bytes the caller's metadata mapping held.
C29_PathAndSizeFromPayload ==
    [][LET p == SeqProc
           o == op[p]
           k == KeyOf(o)
           payload == <<o.name, o.version,
                        IF o.src \in FileSources THEN o.src ELSE "model">>
           size == IF o.src \in FileSources THEN 1 ELSE 2
       IN (Returns(p) /\ o.kind = "register" /\ ret'[p] = "ok")
          => /\ md[p].path = payload
             /\ md[p].size_bytes = size
             /\ md[p].size_bytes >= 0
             /\ meta'[k].state = "ok"
             /\ meta'[k].rec.path = payload
             /\ meta'[k].rec.size_bytes = size
             /\ k \in dirs'
             /\ payload[3] \in entries'[k]]_vars

\* A registration whose metadata mapping named a path and a size has
\* returned.
C29_Witness ==
    /\ op[SeqProc].kind = "register"
    /\ pc[SeqProc] = 0
    /\ ret[SeqProc] = "ok"
    /\ op[SeqProc].upd = SetPathSize
    /\ op[SeqProc].src \in DirSources
    /\ meta[KeyOf(op[SeqProc])].rec.size_bytes = PayloadSize(op[SeqProc].src)

\* C30: delete_model(name, version) leaves the directory, the payload, the
\* metadata file and the index entry of every other (name, version) as they
\* were; a call that deletes keeps name in the index exactly when the index
\* held another version of it, and a call that does not delete changes
\* nothing.
C30_DeleteFrame ==
    LET p == SeqProc
        o == op[p]
        k == KeyOf(o)
        before == hist.store
        old == before.indexFile.idx
        idx == indexFile.idx
    IN (o.kind = "delete" /\ o.version # NoVersion /\ pc[p] = 0)
       => /\ \A other \in Keys \ {k} :
                /\ other \in dirs <=> other \in before.dirs
                /\ entries[other] = before.entries[other]
                /\ meta[other] = before.meta[other]
                /\ HasKey(idx, other[1], other[2])
                     <=> HasKey(old, other[1], other[2])
                /\ HasKey(idx, other[1], other[2])
                     => EntryOf(idx, other) = EntryOf(old, other)
          /\ ret[p] = "ok"
               => (o.name \in DOMAIN idx
                    <=> \E v \in Versions \ {o.version} : HasKey(old, o.name, v))
          /\ ret[p] # "ok" => Store = before

\* A delete has returned that left another version of its name and another
\* name behind.
C30_Witness ==
    /\ op[SeqProc].kind = "delete"
    /\ op[SeqProc].version # NoVersion
    /\ pc[SeqProc] = 0
    /\ ret[SeqProc] = "ok"
    /\ op[SeqProc].name \in DOMAIN indexFile.idx
    /\ \E n \in DOMAIN indexFile.idx : n # op[SeqProc].name

\* C31: a register_model that failed because its source is neither a file
\* nor a directory leaves no directory for (name, version) when there was
\* none before the call.
C31_FailedRegisterLeavesNoDir ==
    LET p == SeqProc
        o == op[p]
    IN ( /\ o.kind = "register"
         /\ pc[p] = 0
         /\ ret[p] = "InvalidSource"
         /\ ~start[p].dir )
       => KeyOf(o) \notin dirs

\* C32: when delete_model(name, version) and update_model_metadata(name,
\* version, updates) have both run on a version that was registered when
\* each of them began, the index holds no entry for (name, version) whose
\* directory and metadata file are gone.
C32_DeleteUpdateNoDanglingEntry ==
    \A p, q \in Procs :
        LET k == KeyOf(op[p])
        IN ( /\ op[p].kind = "delete" /\ op[p].version # NoVersion
             /\ op[q].kind = "update" /\ KeyOf(op[q]) = k
             /\ pc[p] = 0 /\ pc[q] = 0
             /\ start[p].dir /\ start[p].meta = "ok"
             /\ HasKey(start[p].index.idx, k[1], k[2])
             /\ start[q].dir /\ start[q].meta = "ok" )
           => ~(InIndex(k) /\ k \notin dirs /\ ~MetaExists(k))

\* C33: when two update_model_metadata calls on the same (name, version)
\* have both returned normally, the index entry of (name, version) has the
\* description, path and status of the stored metadata record.
C33_UpdatesEntryMatchesRecord ==
    \A p, q \in Procs :
        LET k == KeyOf(op[p])
        IN ( /\ p # q
             /\ op[p].kind = "update" /\ op[q].kind = "update"
             /\ KeyOf(op[q]) = k
             /\ pc[p] = 0 /\ pc[q] = 0
             /\ ret[p] = "ok" /\ ret[q] = "ok" )
           => /\ InIndex(k)
              /\ meta[k].state = "ok"
              /\ EntryOf(indexFile.idx, k).description = meta[k].rec.description
              /\ EntryOf(indexFile.idx, k).path = meta[k].rec.path
              /\ EntryOf(indexFile.idx, k).status = meta[k].rec.status

\* What the read operations of a registry with project name `project`
\* return on storage root st: list_models, list_versions and
\* get_latest_version from the index, get_model_metadata and get_model from
\* the version directories of the project.
ObservedThrough(st, project) ==
    LET idx == st.indexFile.idx
    IN [models |-> {n \in Names : n \in DOMAIN idx},
        versions |-> [n \in Names |->
                        IF n \in DOMAIN idx
                        THEN [i \in 1..Len(SortDesc(idx[n], <<>>)) |->
                                 SortDesc(idx[n], <<>>)[i].version]
                        ELSE <<>>],
        latest |-> [n \in Names |->
                      IF n \in DOMAIN idx /\ idx[n] # <<>>
                      THEN SortDesc(idx[n], <<>>)[1].version
                      ELSE NoVersion],
        records |-> [k \in Keys |-> st.meta[ModelDir(project, k[1], k[2])]],
        payloads |-> [k \in Keys |-> st.entries[ModelDir(project, k[1], k[2])]]]

\* C34: a register_model, update_model_metadata or delete_model made through
\* a registry with one project name leaves the results of list_models,
\* list_versions, get_latest_version, get_model and get_model_metadata of a
\* registry with another project name on the same storage root as they were
\* before the call.
C34_ProjectsIsolated ==
    LET p == SeqProc
    IN ( /\ op[p].kind \in {"register", "update", "delete"}
         /\ ProjectOf(op[p]) = ActingProject
         /\ pc[p] = 0 )
       => ObservedThrough(Store, OtherProject)
            = ObservedThrough(hist.store, OtherProject)

\* C35: the record that get_model_metadata(name, version) returns, the one
\* it reads at its returning step, has that name and that version, whatever
\* metadata mappings register_model and update_model_metadata were given.
C35_RecordKeepsIdentity ==
    [][LET p == SeqProc
           o == op[p]
           rec == meta[KeyOf(o)].rec
       IN (Returns(p) /\ o.kind = "get_model_metadata" /\ ret'[p] = "ok")
          => rec.name = o.name /\ rec.version = o.version]_vars

\* C36: after a register_model of a source file that returned normally, the
\* version directory holds the copied payload as an entry other than the
\* metadata file, and the path of the stored record does not name the
\* metadata file.
C36_PayloadApartFromMetadata ==
    LET p == SeqProc
        o == op[p]
        k == KeyOf(o)
    IN ( /\ o.kind = "register"
         /\ o.src \in Files
         /\ pc[p] = 0
         /\ ret[p] = "ok" )
       => /\ meta[k].state = "ok"
          /\ entries[k] # {}
          /\ meta[k].rec.path[3] \in entries[k]
          /\ meta[k].rec.path[3] # MetaFileName

\* C37: every name that is a key of the index has at least one version
\* under it, in every state and under every interleaving of register_model
\* and delete_model calls.
C37_NoEmptyName ==
    \A n \in Names :
        n \in DOMAIN indexFile.idx => Len(indexFile.idx[n]) > 0

\* A delete_model of one version has removed the name from the index
\* while a register_model of another version of the name was under way:
\* both have returned normally and the name is not in the index.
C37_Witness ==
    \E p, q \in Procs :
        /\ op[p].kind = "delete" /\ op[p].version # NoVersion
        /\ ret[p] = "ok"
        /\ HasKey(start[p].index.idx, op[p].name, op[p].version)
        /\ op[p].name \notin DOMAIN indexFile.idx
        /\ ~indexFile.torn
        /\ q # p /\ op[q].kind = "register" /\ ret[q] = "ok"
        /\ op[q].name = op[p].name
        /\ op[q].version # op[p].version

\* C38: no step of the construction of a registry removes an entry from the
\* index while another process is in, or has completed, a register_model on
\* the same storage root.
C38_ConstructKeepsEntries ==
    [][\A p \in Procs :
          (op[p].kind = "construct" /\ pc[p] > 0 /\ pc'[p] # pc[p])
          => \A k \in Keys :
                HasKey(indexFile.idx, k[1], k[2])
                  => HasKey(indexFile'.idx, k[1], k[2])]_vars

====
